---- MODULE Spec2Model ----
(***************************************************************************)
(* Model of app_motor.py, a Streamlit dashboard over a motorcycle sales    *)
(* table.  One script run is: pick the data source (lines 54-68), prepare  *)
(* the date column (73-79), backfill the missing columns (82-93), render   *)
(* the view the sidebar radio selects (110-239), print the footer          *)
(* (244-245).  Every user interaction reruns the script from the top.      *)
(*                                                                         *)
(* Dates are day numbers counted from 2023-01-01 (day 0).  Regions are the *)
(* positions 1..5 of wilayah_list, product names "Motor-k" are the numbers *)
(* k.  A table is [cols, rows]: the set of column names and the sequence   *)
(* of rows; a row keeps its pandas index label in idx.  The cells of a     *)
(* column that the table does not have are written NaN.                    *)
(***************************************************************************)
EXTENDS Integers, Sequences, FiniteSets

\* ------------------------------------------------------------- bounds
\* Rows of the short input tables, built from RowPool.
MaxRows == 2
\* Rows of the long input tables (product cycling and top-5 truncation).
MaxLong == 6
\* Seeds of the random generator are 0..MaxSeed.
MaxSeed == 1

\* ------------------------------------------------- program constants
\* A missing cell: NaN / None / NaT.
NaN == -1
\* A date cell whose text does not parse as a date.
BAD == -2
\* len(wilayah_list)
NumWilayah == 5
\* random.randint(20, 200)
RandLo == 20
RandHi == 200
\* f"Motor-{i%5+1}"
NumLabels == 5
\* nlargest(5)
TopN == 5
\* forecast(steps=7), date_range(periods=7)
Steps == 7
\* timedelta(days=7) of the insight view
WindowDays == 7

AllCols == {"Tanggal", "Wilayah", "Promosi", "Penjualan", "Nama_Produk"}

\* Line 82: the five regions, by position.
wilayah_list == [k \in 1..NumWilayah |-> k]

\* The value of `data` before line 55 binds it.
NoData == [cols |-> {}, rows |-> <<>>]

\* No uploaded file (file_uploader returns None).
NoFile == [ext |-> "none", readable |-> FALSE]

\* No view rendered in this run (yet).
NoView == [menu |-> "none"]

\* ------------------------------------------------------------ helpers
Range(s) == {s[i] : i \in 1..Len(s)}

Max(S) == CHOOSE x \in S : \A y \in S : y <= x

Min(S) == CHOOSE x \in S : \A y \in S : x <= y

RECURSIVE SumSeq(_)
SumSeq(s) == IF s = <<>> THEN 0 ELSE Head(s) + SumSeq(Tail(s))

\* The elements of a set of integers in ascending order.
RECURSIVE Ascending(_)
Ascending(S) ==
    IF S = {} THEN <<>> ELSE <<Min(S)>> \o Ascending(S \ {Min(S)})

\* Series.sum(): missing values are skipped.
SumPenjualan(rows) ==
    SumSeq([i \in 1..Len(rows) |->
              IF rows[i].Penjualan = NaN THEN 0 ELSE rows[i].Penjualan])

\* Series.count(): the cells that are not missing.
CountPenjualan(rows) ==
    Cardinality({i \in 1..Len(rows) : rows[i].Penjualan # NaN})

\* ------------------------------------------------------- input tables
\* A row of a source file with all five columns.
Row(t, w, p, s, n) ==
    [Tanggal |-> t, Wilayah |-> w, Promosi |-> p, Penjualan |-> s,
     Nama_Produk |-> n]

\* Sample rows: in and out of date order, more than a week apart, an
\* unparsable date, a missing date, and missing cells in every other column.
RowPool ==
    { Row(0, 1, 1, 2, 1),
      Row(WindowDays + 2, 2, 0, 1, 2),
      Row(1, NaN, NaN, NaN, NaN),
      Row(BAD, 1, 0, 1, 1),
      Row(NaN, 2, 1, 2, 2) }

\* The file as read by pandas: the columns in cols, index labels 1..n.
MkTable(cols, rows) ==
    [cols |-> cols,
     rows |-> [i \in 1..Len(rows) |->
                 [c \in AllCols \cup {"idx"} |->
                    IF c = "idx" THEN i
                    ELSE IF c \in cols THEN rows[i][c] ELSE NaN]]]

RECURSIVE SeqsUpTo(_, _)
SeqsUpTo(S, n) ==
    IF n = 0 THEN {<<>>}
    ELSE LET shorter == SeqsUpTo(S, n - 1)
         IN  shorter \cup {Append(s, x) : s \in shorter, x \in S}

ShortTables ==
    {MkTable(cols, rows) : cols \in SUBSET AllCols \ {{}},
                           rows \in SeqsUpTo(RowPool, MaxRows)}

\* Long tables: n rows on n distinct days (ascending or descending in file
\* order; with bad, the date of the first row does not parse), the products
\* cycling through k names (k = 0: no product column), units sold 1 or 2
\* per row.
LongRows(n, k, desc, bad, units) ==
    [i \in 1..n |->
       Row(IF bad /\ i = 1 THEN BAD ELSE IF desc THEN n - i ELSE i - 1,
           1 + (i % 2), i % 2, units[i],
           IF k = 0 THEN NaN ELSE 1 + ((i - 1) % k))]

LongTables ==
    {MkTable(IF k = 0 THEN AllCols \ {"Nama_Produk"} ELSE AllCols,
             LongRows(n, k, desc, bad, units)) :
        n \in (MaxLong - 1)..MaxLong, k \in 0..MaxLong, desc \in BOOLEAN,
        bad \in BOOLEAN, units \in [1..MaxLong -> {1, 2}]}

VARIABLES
    uploaded_file,    \* st.sidebar.file_uploader: NoFile or [ext, readable]
    local_csv,        \* motor_clean_fixed.csv: "absent", "ok" or "corrupt"
    local_xlsx,       \* motor_clean_fixed.xlsx: "absent", "ok" or "corrupt"
    remote_ok,        \* whether DATA_URL can be fetched
    source,           \* the table every readable source holds
    cache_load_data,  \* st.cache_data of load_data: the set of cached results
    cache_default,    \* st.cache_data of load_default_data
    pc,               \* position of the script run
    data,             \* the dataframe `data`
    used,             \* the source named by the status message of this run
    out,              \* what the view of this run rendered
    first_table       \* the canonical table of the session's first run

vars == <<uploaded_file, local_csv, local_xlsx, remote_ok, source,
          cache_load_data, cache_default, pc, data, used, out, first_table>>

env == <<uploaded_file, local_csv, local_xlsx, remote_ok, source>>

Uploads ==
    {NoFile, [ext |-> "other", readable |-> TRUE]}
      \cup [ext : {"csv", "xlsx"}, readable : BOOLEAN]

FileStates == {"absent", "ok", "corrupt"}

\* A small table every environment is run with.
ProbeTable == MkTable(AllCols, <<Row(1, 1, 1, 2, 1), Row(0, 2, 0, 1, 2)>>)

Init ==
    /\ \/ /\ uploaded_file \in Uploads
          /\ local_csv \in FileStates
          /\ local_xlsx \in FileStates
          /\ remote_ok \in BOOLEAN
          /\ source = ProbeTable
       \/ /\ uploaded_file \in {NoFile, [ext |-> "csv", readable |-> TRUE]}
          /\ local_csv = "absent"
          /\ local_xlsx = "absent"
          /\ remote_ok = TRUE
          /\ source \in ShortTables \cup LongTables
    /\ cache_load_data = {}
    /\ cache_default = {}
    /\ pc = "start"
    /\ data = NoData
    /\ used = "none"
    /\ out = NoView
    /\ first_table = NoData

\* ------------------------------------------------ source priority block
\* Line 55-56, load_data lines 32-37 and 41: an uploaded .csv / .xlsx file.
\* The cached result is returned when there is one.
LoadUploaded ==
    /\ pc = "start"
    /\ uploaded_file # NoFile
    /\ uploaded_file.ext \in {"csv", "xlsx"}
    /\ cache_load_data # {} \/ uploaded_file.readable
    /\ data' = IF cache_load_data # {}
               THEN CHOOSE t \in cache_load_data : TRUE
               ELSE source
    /\ cache_load_data' = {data'}
    /\ used' = "uploaded " \o uploaded_file.ext
    /\ pc' = "loaded"
    /\ UNCHANGED <<env, cache_default, out, first_table>>

\* LoadUnsupported as it would be if the else branch of load_data fell back
\* to reading the file instead of stopping.
LoadUnsupported_fallback ==
    /\ pc = "start"
    /\ uploaded_file # NoFile
    /\ uploaded_file.ext \notin {"csv", "xlsx"}
    /\ data' = source
    /\ pc' = "loaded"
    /\ used' = "unsupported format"
    /\ UNCHANGED <<env, cache_load_data, cache_default, out, first_table>>

\* Lines 38-40: any other file name: st.error and st.stop().
LoadUnsupported ==
    /\ pc = "start"
    /\ uploaded_file # NoFile
    /\ uploaded_file.ext \notin {"csv", "xlsx"}
    /\ pc' = "stopped"
    /\ used' = "unsupported format"
    /\ UNCHANGED <<env, cache_load_data, cache_default, data, out, first_table>>

\* Lines 61-63: the local CSV file.
LoadLocalCsv ==
    /\ pc = "start"
    /\ uploaded_file = NoFile
    /\ local_csv = "ok"
    /\ data' = source
    /\ used' = "local csv"
    /\ pc' = "loaded"
    /\ UNCHANGED <<env, cache_load_data, cache_default, out, first_table>>

\* LoadLocalXlsx as it would be with `if` for `elif` in line 64: the XLSX
\* file is read whether or not a local CSV file exists.
LoadLocalXlsx_not_elif ==
    /\ pc = "start"
    /\ uploaded_file = NoFile
    /\ local_xlsx = "ok"
    /\ data' = source
    /\ used' = "local xlsx"
    /\ pc' = "loaded"
    /\ UNCHANGED <<env, cache_load_data, cache_default, out, first_table>>

\* Lines 64-66: the local XLSX file, when there is no local CSV file.
LoadLocalXlsx ==
    /\ pc = "start"
    /\ uploaded_file = NoFile
    /\ local_csv = "absent"
    /\ local_xlsx = "ok"
    /\ data' = source
    /\ used' = "local xlsx"
    /\ pc' = "loaded"
    /\ UNCHANGED <<env, cache_load_data, cache_default, out, first_table>>

\* Lines 67-68, load_default_data lines 46-49: the remote default.
LoadDefault ==
    /\ pc = "start"
    /\ uploaded_file = NoFile
    /\ local_csv = "absent"
    /\ local_xlsx = "absent"
    /\ cache_default # {} \/ remote_ok
    /\ data' = IF cache_default # {}
               THEN CHOOSE t \in cache_default : TRUE
               ELSE source
    /\ cache_default' = {data'}
    /\ used' = "default"
    /\ pc' = "loaded"
    /\ UNCHANGED <<env, cache_load_data, out, first_table>>

\* load_default_data lines 50-52: the fetch fails: st.error and st.stop().
LoadDefaultFails ==
    /\ pc = "start"
    /\ uploaded_file = NoFile
    /\ local_csv = "absent"
    /\ local_xlsx = "absent"
    /\ cache_default = {}
    /\ ~remote_ok
    /\ pc' = "stopped"
    /\ used' = "default unavailable"
    /\ UNCHANGED <<env, cache_load_data, cache_default, data, out, first_table>>

\* Lines 33, 36, 62, 65: pd.read_csv / pd.read_excel raises on the file the
\* branch selected; nothing catches it and the script run ends there.
LoadRaises ==
    /\ pc = "start"
    /\ \/ /\ uploaded_file # NoFile
          /\ uploaded_file.ext \in {"csv", "xlsx"}
          /\ cache_load_data = {}
          /\ ~uploaded_file.readable
       \/ /\ uploaded_file = NoFile
          /\ local_csv = "corrupt"
       \/ /\ uploaded_file = NoFile
          /\ local_csv = "absent"
          /\ local_xlsx = "corrupt"
    /\ pc' = "error"
    /\ used' = "read error"
    /\ UNCHANGED <<env, cache_load_data, cache_default, data, out, first_table>>

\* ------------------------------------------------------ data preparation
\* Line 76: pd.date_range("2023-01-01", periods=len(data), freq="D"),
\* assigned by position.
date_range(start, periods) == [i \in 1..periods |-> start + (i - 1)]

\* Line 78: pd.to_datetime(..., errors="coerce") of one cell: a date stays
\* a date, text that is no date and a missing cell become NaT.
to_datetime(cell) == IF cell >= 0 THEN cell ELSE NaN

\* Line 79: dropna(subset=["Tanggal"]).
dropna(rows) == SelectSeq(rows, LAMBDA r : r.Tanggal # NaN)

\* Line 79: the results sort_values("Tanggal") can give: every order of the
\* rows that ascends by date (the default sort kind does not promise an
\* order among rows of equal date).
RECURSIVE SortOutcomes(_)
SortOutcomes(S) ==
    IF S = {} THEN {<<>>}
    ELSE LET lo == Min({r.Tanggal : r \in S})
         IN  UNION {{<<r>> \o t : t \in SortOutcomes(S \ {r})} :
                      r \in {x \in S : x.Tanggal = lo}}

\* sort_values as it would be with the sort left out.
sort_values_skipped(rows) == {rows}

sort_values(rows) == SortOutcomes(Range(rows))

\* Lines 73-78: the date column before the null dates are dropped.
WithDates(t) ==
    LET dates == date_range(0, Len(t.rows))
        dated == IF "Tanggal" \in t.cols THEN t.rows
                 ELSE [i \in 1..Len(t.rows) |->
                         [t.rows[i] EXCEPT !.Tanggal = dates[i]]]
    IN  [i \in 1..Len(dated) |->
           [dated[i] EXCEPT !.Tanggal = to_datetime(@)]]

\* Lines 73-79.
Prepare ==
    /\ pc = "loaded"
    /\ \E sorted \in sort_values(dropna(WithDates(data))) :
          data' = [cols |-> data.cols \cup {"Tanggal"}, rows |-> sorted]
    /\ pc' = "prepared"
    /\ UNCHANGED <<env, cache_load_data, cache_default, used, out, first_table>>

\* ----------------------------------------------------------- backfill
\* Module random is a deterministic generator; the script never seeds it and
\* its state carries over from one script run to the next, so a run may
\* find it in any state.  The model has the states 0..MaxSeed and a small
\* linear generator: Draw is the j-th value (j = 0, 1, ...) drawn from k
\* alternatives after state seed, as a position 0..k-1.
Draw(seed, j, k) == (seed * (j + 1) + j) % k

\* Line 84: random.choice(wilayah_list).
DrawWilayah(seed, j) == wilayah_list[1 + Draw(seed, j, Len(wilayah_list))]

\* Line 87: random.choice([0, 1]).
DrawPromosi(seed, j) == Draw(seed, j, 2)

\* Line 90: random.randint(20, 200).
DrawPenjualan(seed, j) == RandLo + Draw(seed, j, RandHi - RandLo + 1)

\* MotorLabel as it would be without the modulo.
MotorLabel_no_modulo(i) == i + 1

\* Line 93: f"Motor-{i%5+1}" for the row at position i, counted from 0.
MotorLabel(i) == (i % NumLabels) + 1

\* Backfilled as it would be if missing cells of a present column were
\* filled too (a fillna per column).
Backfilled_fillna(t, seed) ==
    LET n == Len(t.rows)
        fill(c, i, v) == IF c \in t.cols /\ t.rows[i][c] # NaN
                         THEN t.rows[i][c] ELSE v
    IN  [cols |-> AllCols,
         rows |-> [i \in 1..n |->
            [idx |-> t.rows[i].idx,
             Tanggal |-> t.rows[i].Tanggal,
             Wilayah |-> fill("Wilayah", i, 1 + ((seed + i) % NumWilayah)),
             Promosi |-> fill("Promosi", i, (seed + i) % 2),
             Penjualan |-> fill("Penjualan", i, RandLo + seed + i),
             Nama_Produk |-> fill("Nama_Produk", i, ((i - 1) % NumLabels) + 1)]]]

\* Lines 83-93: a column is filled only when the table does not have it.
\* The draws of the three random columns follow one another in the order
\* of the lines: len(data) for each column that is filled.
Backfilled(t, seed) ==
    LET n == Len(t.rows)
        offW == 0
        offP == IF "Wilayah" \in t.cols THEN offW ELSE offW + n
        offS == IF "Promosi" \in t.cols THEN offP ELSE offP + n
    IN  [cols |-> AllCols,
         rows |-> [i \in 1..n |->
            [idx |-> t.rows[i].idx,
             Tanggal |-> t.rows[i].Tanggal,
             Wilayah |-> IF "Wilayah" \in t.cols THEN t.rows[i].Wilayah
                         ELSE DrawWilayah(seed, offW + i - 1),
             Promosi |-> IF "Promosi" \in t.cols THEN t.rows[i].Promosi
                         ELSE DrawPromosi(seed, offP + i - 1),
             Penjualan |-> IF "Penjualan" \in t.cols THEN t.rows[i].Penjualan
                           ELSE DrawPenjualan(seed, offS + i - 1),
             Nama_Produk |-> IF "Nama_Produk" \in t.cols
                             THEN t.rows[i].Nama_Produk
                             ELSE MotorLabel(i - 1)]]]

\* Lines 82-93.  The state of the random generator is not set by the
\* script: any seed.
Backfill ==
    /\ pc = "prepared"
    /\ \E seed \in 0..MaxSeed : data' = Backfilled(data, seed)
    /\ first_table' = IF first_table = NoData THEN data' ELSE first_table
    /\ pc' = "ready"
    /\ UNCHANGED <<env, cache_load_data, cache_default, used, out>>

\* -------------------------------------------------------------- views
\* groupby(col)["Penjualan"].sum(): one entry per value of col that is not
\* missing, in ascending order of the value.
GroupSum(rows, col) ==
    LET keys == Ascending({r[col] : r \in Range(rows)} \ {NaN})
    IN  [g \in 1..Len(keys) |->
           [key |-> keys[g],
            Penjualan |->
              SumPenjualan(SelectSeq(rows, LAMBDA r : r[col] = keys[g]))]]

\* nlargest as it would be with head(n) in its place: the first n entries
\* in group order.
nlargest_head(series, n) ==
    SubSeq(series, 1, IF Len(series) < n THEN Len(series) ELSE n)

\* Series.nlargest(n): the n largest entries in descending order, the
\* earlier entry first among equal ones (keep="first").
RECURSIVE nlargest(_, _)
nlargest(series, n) ==
    IF n = 0 \/ series = <<>> THEN <<>>
    ELSE LET top == Max({series[i].Penjualan : i \in 1..Len(series)})
             at  == Min({i \in 1..Len(series) : series[i].Penjualan = top})
             rest == [i \in 1..(Len(series) - 1) |->
                        IF i < at THEN series[i] ELSE series[i + 1]]
         IN  <<series[at]>> \o nlargest(rest, n - 1)

\* Lines 141 and 163: the options of st.selectbox, data["Nama_Produk"]
\* .unique(): a missing name is an option too; with no option the widget
\* returns None.
ProdukOptions(rows) ==
    IF rows = <<>> THEN {NaN} ELSE {r.Nama_Produk : r \in Range(rows)}

\* Lines 142 and 164: data[data["Nama_Produk"] == produk]; a missing value
\* equals nothing.
df_produk(rows, produk) ==
    IF produk = NaN THEN <<>>
    ELSE SelectSeq(rows, LAMBDA r : r.Nama_Produk = produk)

\* Line 147: Series.mode(): the most frequent values that are not missing,
\* in ascending order.
mode(rows, col) ==
    LET vals == {r[col] : r \in Range(rows)} \ {NaN}
        freq(v) == Cardinality({i \in 1..Len(rows) : rows[i][col] = v})
    IN  Ascending({v \in vals : \A w \in vals : freq(w) <= freq(v)})

\* Lines 110-133, 244-245.
Dashboard ==
    /\ pc = "ready"
    /\ out' = [menu |-> "Dashboard Penjualan",
               top_produk |->
                 nlargest(GroupSum(data.rows, "Nama_Produk"), TopN),
               wilayah_penjualan |-> GroupSum(data.rows, "Wilayah")]
    /\ pc' = "done"
    /\ UNCHANGED <<env, cache_load_data, cache_default, data, used, first_table>>

\* Lines 138-154, 244-245.  mode()[0] raises when the product has no row
\* with a region; nothing catches it.
AnalisisProduk ==
    /\ pc = "ready"
    /\ \E produk \in ProdukOptions(data.rows) :
          LET df == df_produk(data.rows, produk)
              terbanyak == mode(df, "Wilayah")
          IN  IF terbanyak = <<>>
              THEN /\ out' = [menu |-> "Analisis Produk", produk |-> produk,
                              raised |-> TRUE]
                   /\ pc' = "error"
              ELSE /\ out' = [menu |-> "Analisis Produk", produk |-> produk,
                              raised |-> FALSE,
                              total |-> SumPenjualan(df),
                              hari |-> CountPenjualan(df),
                              wilayah |-> terbanyak[1],
                              df_produk |-> df]
                   /\ pc' = "done"
    /\ UNCHANGED <<env, cache_load_data, cache_default, data, used, first_table>>

\* ForecastDates as it would be without the timedelta(days=1).
ForecastDates_from_last(df) ==
    date_range(Max({r.Tanggal : r \in Range(df)}), Steps)

\* Line 172: pd.date_range(df_produk["Tanggal"].max() + timedelta(days=1),
\* periods=7).
ForecastDates(df) ==
    date_range(Max({r.Tanggal : r \in Range(df)}) + 1, Steps)

\* Lines 159-189, 244-245: the model is fitted and the 7 forecasts are
\* shown and offered for download.  Whether ARIMA(...).fit() succeeds on a
\* series is the library's decision: either outcome is possible for a
\* series that has rows.  (With no row, line 172 raises on the missing
\* maximum date.)  The forecast values themselves are not modelled.
PrediksiDemand ==
    /\ pc = "ready"
    /\ \E produk \in ProdukOptions(data.rows) :
          LET df == df_produk(data.rows, produk)
          IN  /\ df # <<>>
              /\ out' = [menu |-> "Prediksi Demand", produk |-> produk,
                         gagal |-> FALSE,
                         forecast_df |-> ForecastDates(df),
                         file_name |-> <<"prediksi", produk>>]
    /\ pc' = "done"
    /\ UNCHANGED <<env, cache_load_data, cache_default, data, used, first_table>>

\* PrediksiDemandGagal as it would be without the try/except: the
\* exception ends the script run.
PrediksiDemandGagal_uncaught ==
    /\ pc = "ready"
    /\ \E produk \in ProdukOptions(data.rows) :
          out' = [menu |-> "Prediksi Demand", produk |-> produk,
                  gagal |-> TRUE, forecast_df |-> <<>>, file_name |-> <<>>]
    /\ pc' = "error"
    /\ UNCHANGED <<env, cache_load_data, cache_default, data, used, first_table>>

\* Lines 159-168 (or -172), 191-192, 244-245: the try block raises, the
\* except branch reports it with st.error, and the script goes on to the
\* footer.
PrediksiDemandGagal ==
    /\ pc = "ready"
    /\ \E produk \in ProdukOptions(data.rows) :
          out' = [menu |-> "Prediksi Demand", produk |-> produk,
                  gagal |-> TRUE, forecast_df |-> <<>>, file_name |-> <<>>]
    /\ pc' = "done"
    /\ UNCHANGED <<env, cache_load_data, cache_default, data, used, first_table>>

\* Lines 197-215, 244-245.  A mean over no value is NaN, and a comparison
\* with NaN is false.
RekomendasiPromosi ==
    /\ pc = "ready"
    /\ LET promo == SelectSeq(data.rows, LAMBDA r : r.Promosi = 1)
           non_promo == SelectSeq(data.rows, LAMBDA r : r.Promosi = 0)
       IN  out' = [menu |-> "Rekomendasi Promosi",
                   promo_sum |-> SumPenjualan(promo),
                   promo_n |-> CountPenjualan(promo),
                   non_promo_sum |-> SumPenjualan(non_promo),
                   non_promo_n |-> CountPenjualan(non_promo),
                   efektif |->
                     /\ CountPenjualan(promo) > 0
                     /\ CountPenjualan(non_promo) > 0
                     /\ SumPenjualan(promo) * CountPenjualan(non_promo)
                          > SumPenjualan(non_promo) * CountPenjualan(promo)]
    /\ pc' = "done"
    /\ UNCHANGED <<env, cache_load_data, cache_default, data, used, first_table>>

\* recent_data as it would be with the window counted from the wrong side
\* of the last date (max + 7 days).
recent_data_after(rows) ==
    IF rows = <<>> THEN <<>>
    ELSE LET cutoff == Max({r.Tanggal : r \in Range(rows)}) + WindowDays
         IN  SelectSeq(rows, LAMBDA r : r.Tanggal >= cutoff)

\* Lines 222-223: the rows dated on or after the last date minus 7 days.
\* With no row the maximum is NaT and the comparison selects nothing.
recent_data(rows) ==
    IF rows = <<>> THEN <<>>
    ELSE LET cutoff == Max({r.Tanggal : r \in Range(rows)}) - WindowDays
         IN  SelectSeq(rows, LAMBDA r : r.Tanggal >= cutoff)

\* Lines 220-239, 244-245.  Line 226 (index[0]) raises when no recent row
\* has a product name, line 228 (idxmax) when none has a region; nothing
\* catches either.
InsightOtomatis ==
    /\ pc = "ready"
    /\ LET recent == recent_data(data.rows)
           per_produk == GroupSum(recent, "Nama_Produk")
           per_wilayah == GroupSum(recent, "Wilayah")
       IN  IF Len(recent) > 0
           THEN IF per_produk = <<>> \/ per_wilayah = <<>>
                THEN /\ out' = [menu |-> "Insight Otomatis",
                                recent_data |-> recent, raised |-> TRUE]
                     /\ pc' = "error"
                ELSE /\ out' = [menu |-> "Insight Otomatis",
                                recent_data |-> recent, raised |-> FALSE,
                                tidak_ada_data |-> FALSE,
                                top_produk |-> nlargest(per_produk, 1)[1].key,
                                total_penjualan |-> SumPenjualan(recent),
                                wilayah_terbaik |->
                                  nlargest(per_wilayah, 1)[1].key,
                                top5_recent |-> nlargest(per_produk, TopN)]
                     /\ pc' = "done"
           ELSE /\ out' = [menu |-> "Insight Otomatis",
                           recent_data |-> recent, raised |-> FALSE,
                           tidak_ada_data |-> TRUE]
                /\ pc' = "done"
    /\ UNCHANGED <<env, cache_load_data, cache_default, data, used, first_table>>

\* A widget interaction: Streamlit runs the script again from the top.
Rerun ==
    /\ pc \in {"done", "stopped", "error"}
    /\ pc' = "start"
    /\ data' = NoData
    /\ used' = "none"
    /\ out' = NoView
    /\ UNCHANGED <<env, cache_load_data, cache_default, first_table>>

Next ==
    \/ LoadUploaded
    \/ LoadUnsupported
    \/ LoadLocalCsv
    \/ LoadLocalXlsx
    \/ LoadDefault
    \/ LoadDefaultFails
    \/ LoadRaises
    \/ Prepare
    \/ Backfill
    \/ Dashboard
    \/ AnalisisProduk
    \/ PrediksiDemand
    \/ PrediksiDemandGagal
    \/ RekomendasiPromosi
    \/ InsightOtomatis
    \/ Rerun

Spec == Init /\ [][Next]_vars

\* ===================================================== checked properties
\* The script run has built the canonical table (line 79 is behind it).
Prepared == pc \in {"prepared", "ready"} \/ (pc \in {"done", "error"} /\ out # NoView)

\* The script run has finished the backfill (line 93 is behind it).
Canonical == pc = "ready" \/ (pc \in {"done", "error"} /\ out # NoView)

BackfillCols == {"Wilayah", "Promosi", "Penjualan", "Nama_Produk"}

\* C1: after data preparation, and still after the backfill, no date of the
\* table is missing and the dates never decrease from one row to the next.
C1_DatesSorted ==
    Prepared =>
       /\ "Tanggal" \in data.cols
       /\ \A i \in 1..Len(data.rows) : data.rows[i].Tanggal >= 0
       /\ \A i \in 1..Len(data.rows) : \A j \in 1..Len(data.rows) :
             i < j => data.rows[i].Tanggal <= data.rows[j].Tanggal

\* C1's case: a source with a date that does not parse and rows out of date
\* order, a column of which had to be backfilled.
C1_Witness ==
    /\ pc = "ready"
    /\ source.cols # AllCols
    /\ Len(data.rows) < Len(source.rows)
    /\ \E i \in 1..Len(data.rows) : \E j \in 1..Len(data.rows) :
          i < j /\ data.rows[i].idx > data.rows[j].idx

\* The source the priority block of lines 55-68 selects: the first one that
\* is present; the remote default stands at the end.
Selected ==
    IF uploaded_file # NoFile THEN "uploaded"
    ELSE IF local_csv # "absent" THEN "local csv"
    ELSE IF local_xlsx # "absent" THEN "local xlsx"
    ELSE "default"

\* Whether reading a source gives a table.
Succeeds(src) ==
    CASE src = "uploaded" ->
           uploaded_file # NoFile /\ uploaded_file.ext \in {"csv", "xlsx"}
             /\ uploaded_file.readable
      [] src = "local csv" -> local_csv = "ok"
      [] src = "local xlsx" -> local_xlsx = "ok"
      [] src = "default" -> remote_ok

SourceOrder == <<"uploaded", "local csv", "local xlsx", "default">>

\* The status message of a run that got its table from src.
UsedBy(src) ==
    IF src = "uploaded" THEN "uploaded " \o uploaded_file.ext ELSE src

LoadFailures == {"unsupported format", "default unavailable", "read error"}

\* The run ended in the source block: no table, no view.
HaltedAtLoad ==
    /\ pc \in {"stopped", "error"}
    /\ used \in LoadFailures
    /\ data = NoData
    /\ out = NoView

\* C2 as stated: the first source, in the fixed order, that can be read
\* supplies the table, and the session halts when none can.
C2_FirstSuccessWins ==
    pc # "start" =>
       IF \E k \in 1..4 : Succeeds(SourceOrder[k])
       THEN LET k == Min({j \in 1..4 : Succeeds(SourceOrder[j])})
            IN  used = UsedBy(SourceOrder[k])
       ELSE HaltedAtLoad

\* C2, amended: the first source that is present is the only one consulted.
\* It supplies the table when it can be read; when it cannot, the run halts
\* in the source block, whatever the later sources hold.
C2_FirstPresentOnly ==
    pc # "start" =>
       IF Succeeds(Selected) THEN used = UsedBy(Selected) /\ ~HaltedAtLoad
       ELSE HaltedAtLoad

\* C2's case: no upload, no local CSV: the local XLSX file supplies the
\* table of a run that reached the footer.
C2_Witness ==
    /\ uploaded_file = NoFile
    /\ local_csv = "absent"
    /\ local_xlsx = "ok"
    /\ used = "local xlsx"
    /\ pc = "done"

\* The index labels of a table in row order.
IdxOrder(t) == [i \in 1..Len(t.rows) |-> t.rows[i].idx]

\* C3: the table a run renders from equals, cell for cell, the table built
\* in the session's first run.  (Stated for runs whose sort put the rows in
\* the order of the first run: sorting the same file twice gives the same
\* order.)
C3_TableImmutable ==
    (Canonical /\ IdxOrder(data) = IdxOrder(first_table)) => data = first_table

\* C4: a successful forecast has 7 rows, dated the 7 days that follow the
\* last date of the selected product's rows.
C4_ForecastDates ==
    (pc = "done" /\ out.menu = "Prediksi Demand" /\ ~out.gagal) =>
       LET last == Max({data.rows[i].Tanggal : i \in
                          {j \in 1..Len(data.rows) :
                             data.rows[j].Nama_Produk = out.produk}})
       IN  /\ Len(out.forecast_df) = 7
           /\ \A k \in 1..7 : out.forecast_df[k] = last + k

\* C4's case: a forecast for a product whose last sale is older than the
\* table's last date.
C4_Witness ==
    /\ pc = "done"
    /\ out.menu = "Prediksi Demand"
    /\ ~out.gagal
    /\ \E i \in 1..Len(data.rows) : data.rows[i].Tanggal >= out.forecast_df[1]

\* C5: a forecast that fails is reported and nothing more: the run reaches
\* the footer, shows no forecast table and offers no download, leaves the
\* table as it was, and the next interaction can start its run.
C5_FailureRecoverable ==
    /\ [][(pc = "ready" /\ out'.menu = "Prediksi Demand" /\ out'.gagal) =>
            /\ pc' = "done"
            /\ data' = data
            /\ out'.forecast_df = <<>>
            /\ out'.file_name = <<>>]_vars
    /\ []((out.menu = "Prediksi Demand" /\ out.gagal) =>
            pc = "done" /\ ENABLED Rerun)

\* C5's case: the fit failed on a product with two rows, and the table has
\* another product to select.
C5_Witness ==
    /\ pc = "done"
    /\ out.menu = "Prediksi Demand"
    /\ out.gagal
    /\ Cardinality({i \in 1..Len(data.rows) :
                      data.rows[i].Nama_Produk = out.produk}) = 2
    /\ \E i \in 1..Len(data.rows) :
          data.rows[i].Nama_Produk \notin {NaN, out.produk}

\* C6: with an uploaded file that is neither .csv nor .xlsx every run stops
\* in load_data: no table is bound, no other source is read, nothing is
\* prepared and no view is rendered.
C6_UnsupportedFatal ==
    (uploaded_file # NoFile /\ uploaded_file.ext \notin {"csv", "xlsx"}) =>
       /\ pc \in {"start", "stopped"}
       /\ pc = "stopped" => used = "unsupported format"
       /\ used \in {"none", "unsupported format"}
       /\ data = NoData
       /\ out = NoView
       /\ cache_load_data = {}
       /\ cache_default = {}

\* C6's case: the run has stopped on the upload although a local file and
\* the remote default could be read.
C6_Witness ==
    /\ pc = "stopped"
    /\ used = "unsupported format"
    /\ local_csv = "ok"
    /\ remote_ok

\* C7: a backfill column that the source has keeps, in every retained row,
\* the cell the source has for that row, a missing cell included.
C7_PresentColumnsKept ==
    Canonical =>
       \A c \in BackfillCols \cap source.cols :
          \A i \in 1..Len(data.rows) :
             data.rows[i][c] = source.rows[data.rows[i].idx][c]

\* C7's case: one backfill column is synthesized while another, present in
\* the source, keeps a missing cell.
C7_Witness ==
    /\ pc = "ready"
    /\ BackfillCols \ source.cols # {}
    /\ \E c \in BackfillCols \cap source.cols :
          \E i \in 1..Len(data.rows) : data.rows[i][c] = NaN

\* The product names of a table without a product column are synthesized.
LabelsSynthesized == Canonical /\ "Nama_Produk" \notin source.cols

Labels == {data.rows[i].Nama_Produk : i \in 1..Len(data.rows)}

\* The row at position i (from 0) carries label (i mod 5) + 1.
LabelsCycle ==
    \A i \in 1..Len(data.rows) : data.rows[i].Nama_Produk = ((i - 1) % 5) + 1

\* C8 as stated, for a table that has rows: the labels cycle by position
\* and there are exactly 5 of them.
C8_ExactlyFiveLabels ==
    (LabelsSynthesized /\ data.rows # <<>>) =>
       (LabelsCycle /\ Cardinality(Labels) = 5)

\* C8, amended: the labels cycle by position, and there are as many of them
\* as the table has rows, up to 5.
C8_LabelsCycle ==
    LabelsSynthesized =>
       /\ LabelsCycle
       /\ Cardinality(Labels) = IF Len(data.rows) < 5 THEN Len(data.rows) ELSE 5

\* C8's case: more than 5 rows, which the sort reordered: the labels start
\* over at the sixth row.
C8_Witness ==
    /\ LabelsSynthesized
    /\ Len(data.rows) > 5
    /\ data.rows[1].idx > data.rows[2].idx
    /\ data.rows[6].Nama_Produk = 1

\* The units sold of the rows of product p, summed row by row.
RECURSIVE UnitsOf(_, _)
UnitsOf(rows, p) ==
    IF rows = <<>> THEN 0
    ELSE UnitsOf(Tail(rows), p)
           + (IF Head(rows).Nama_Produk = p /\ Head(rows).Penjualan # NaN
              THEN Head(rows).Penjualan ELSE 0)

\* result is the top 5 by total units of rows.
IsTop5(result, rows) ==
    LET products == {rows[i].Nama_Produk : i \in 1..Len(rows)} \ {NaN}
        shown == {result[i].key : i \in 1..Len(result)}
    IN  /\ Len(result) = IF Cardinality(products) < 5
                         THEN Cardinality(products) ELSE 5
        /\ Cardinality(shown) = Len(result)
        /\ shown \subseteq products
        /\ \A i \in 1..Len(result) :
              result[i].Penjualan = UnitsOf(rows, result[i].key)
        /\ \A i \in 1..Len(result) : \A j \in 1..Len(result) :
              i < j => result[i].Penjualan >= result[j].Penjualan
        /\ \A p \in products \ shown : \A i \in 1..Len(result) :
              UnitsOf(rows, p) <= result[i].Penjualan

\* C9: the top-5 table of the Dashboard view (over the whole table) and of
\* the Insight view (over the recent rows) holds min(5, number of products)
\* entries with their totals, in descending order of total, and no product
\* left out has a larger total than one shown.
C9_Top5 ==
    /\ (pc = "done" /\ out.menu = "Dashboard Penjualan") =>
          IsTop5(out.top_produk, data.rows)
    /\ (pc = "done" /\ out.menu = "Insight Otomatis" /\ ~out.tidak_ada_data) =>
          IsTop5(out.top5_recent, out.recent_data)

\* C9's case: more than 5 products, one is left out, and the order by total
\* is not the order by name.
C9_Witness ==
    /\ pc = "done"
    /\ out.menu = "Dashboard Penjualan"
    /\ Len(out.top_produk) = 5
    /\ Len(GroupSum(data.rows, "Nama_Produk")) > 5
    /\ out.top_produk[1].key > out.top_produk[2].key
    /\ out.top_produk[1].Penjualan > out.top_produk[5].Penjualan

\* C10: in the Insight view the recent window of a table with rows has rows,
\* among them every row of the last date; "no data" is shown only for a
\* table without rows.
C10_RecentNonEmpty ==
    out.menu = "Insight Otomatis" =>
       /\ data.rows # <<>> =>
             /\ out.recent_data # <<>>
             /\ \A i \in 1..Len(data.rows) :
                   (\A j \in 1..Len(data.rows) :
                       data.rows[j].Tanggal <= data.rows[i].Tanggal)
                     => data.rows[i] \in Range(out.recent_data)
       /\ (~out.raised /\ out.tidak_ada_data) => data.rows = <<>>

\* C10's case: a table whose oldest row is more than 7 days older than its
\* last and falls out of the window.
C10_Witness ==
    /\ pc = "done"
    /\ out.menu = "Insight Otomatis"
    /\ out.recent_data # <<>>
    /\ Len(out.recent_data) < Len(data.rows)
====
